---------------------------- MODULE Spec2Model ----------------------------
(***************************************************************************)
(* The sales-data notebook Databricks_Data_Transformations_Project.py as a *)
(* state machine: one action per DataFrame the notebook builds, in the     *)
(* order the notebook builds them.                                         *)
(*                                                                         *)
(* A nullable column value is <<>> (SQL NULL) or <<v>>.  A DoubleType      *)
(* amount is an integer number of thousandths (1200.50 is 1200500), so     *)
(* that rounding to 2 decimals has something to round.  A DataFrame is a   *)
(* sequence of records.                                                    *)
(***************************************************************************)
EXTENDS Integers, Sequences, FiniteSets, TLC

\* ------------------------------------------------------------------ bounds
MaxRows == 2
MaxQty == 2

\* ------------------------------------------------------- nullable values
Null == <<>>
Some(v) == <<v>>
IsNull(x) == x = Null
Val(x) == x[1]

\* One row of sales_schema: every StructField is declared nullable (True).
Row(oid, cust, it, q, p, reg, st) ==
    [order_id |-> oid, customer_name |-> cust, item |-> it, quantity |-> q,
     price_per_unit |-> p, region |-> reg, status |-> st]

\* The ten literal rows of the notebook (None is Null).
raw_sales_data ==
    << Row(Some("ORD001"), Some("Alice Smith"), Some("Laptop"), Some(1), Some(1200500), Some("North"), Some("Completed")),
       Row(Some("ORD002"), Some("Bob Johnson"), Some("Mouse"), Some(2), Some(25000), Some("South"), Some("Pending")),
       Row(Some("ORD003"), Some("Charlie Brown"), Some("Keyboard"), Some(1), Some(75250), Some("East"), Some("Completed")),
       Row(Some("ORD004"), Some("Alice Smith"), Some("Monitor"), Some(1), Some(300000), Some("North"), Some("Pending")),
       Row(Some("ORD005"), Some("Eve Davis"), Some("Laptop Bag"), Some(1), Some(45000), Some("West"), Some("Cancelled")),
       Row(Some("ORD006"), Some("Bob Johnson"), Some("Headphones"), Some(3), Some(50000), Some("South"), Some("Completed")),
       Row(Some("ORD007"), Some("Grace Lee"), Some("Webcam"), Some(1), Some(60000), Some("East"), Some("Completed")),
       Row(Some("ORD008"), Some("Frank White"), Some("Mouse"), Null, Some(25000), Some("North"), Some("Completed")),
       Row(Some("ORD009"), Some("Charlie Brown"), Some("External SSD"), Some(1), Some(99990), Some("East"), Some("Pending")),
       Row(Some("ORD010"), Some("Alice Smith"), Some("Webcam"), Some(1), Some(60000), Some("North"), Some("Completed")) >>

\* ------------------------------------------------ tables the schema admits
\* Rows over the given column domains; customer_name and item stay fixed.
RowsOver(oids, qtys, prices, regions, statuses) ==
    { Row(o, Some("Alice Smith"), Some("Mouse"), q, p, r, s) :
        o \in oids, q \in qtys, p \in prices, r \in regions, s \in statuses }

Quantities == {Null} \cup { Some(q) : q \in 0..MaxQty }

\* Rows that exercise the cleaning stage: status and quantity vary.
CleaningRows ==
    RowsOver({Some("ORD001")}, Quantities, {Some(25000)}, {Some("North")},
             {Null, Some("Cancelled"), Some("cancelled"), Some("Completed")})

\* Rows that exercise total_price: quantity and price vary (0.004, 0.005,
\* -0.005 and 25.00 as thousandths).
DerivationRows ==
    RowsOver({Some("ORD002")}, Quantities,
             {Null, Some(4), Some(5), Some(-5), Some(25000)},
             {Some("East")}, {Some("Pending")})

\* Rows that exercise the aggregations: order_id, price, region, status vary.
AggregationRows ==
    RowsOver({Null, Some("ORD003")}, {Some(1)}, {Null, Some(75250)},
             {Null, Some("North"), Some("East")},
             {Some("Pending"), Some("Completed"), Some("Cancelled")})

TablesOver(rows) == UNION { [1..n -> rows] : n \in 0..MaxRows }

RawTables ==
    {raw_sales_data} \cup TablesOver(CleaningRows)
        \cup TablesOver(DerivationRows) \cup TablesOver(AggregationRows)


\* ------------------------------------------------ Step 1: cleaning (61-65)
\* Mutation: subset names the wrong numeric column (price_per_unit).
NaFillWrongSubset(df) ==
    [ i \in DOMAIN df |->
        IF IsNull(df[i].price_per_unit)
        THEN [df[i] EXCEPT !.price_per_unit = Some(0)]
        ELSE df[i] ]

\* Mutation: no subset, so every numeric column is filled.
NaFillAllNumeric(df) ==
    [ i \in DOMAIN df |->
        [df[i] EXCEPT
           !.quantity = IF IsNull(@) THEN Some(0) ELSE @,
           !.price_per_unit = IF IsNull(@) THEN Some(0) ELSE @] ]

\* Mutation: the fill value is 1.
NaFillOne(df) ==
    [ i \in DOMAIN df |->
        IF IsNull(df[i].quantity) THEN [df[i] EXCEPT !.quantity = Some(1)]
                                  ELSE df[i] ]

\* df.na.fill(0, subset=["quantity"]): a null quantity becomes 0.
NaFill(df) ==
    [ i \in DOMAIN df |->
        IF IsNull(df[i].quantity) THEN [df[i] EXCEPT !.quantity = Some(0)]
                                  ELSE df[i] ]

\* col(c) != lit under SQL three-valued logic: NULL when the column is NULL.
NotEqual(x, lit) == IF IsNull(x) THEN Null ELSE Some(Val(x) # lit)

\* Mutation: the filter also requires a quantity.
FilterDropIncomplete(df) ==
    LET Keep(r) == /\ NotEqual(r.status, "Cancelled") = Some(TRUE)
                   /\ ~IsNull(r.quantity)
    IN  SelectSeq(df, Keep)

\* df.filter(col("status") != "Cancelled"): keeps, in order, the rows on
\* which the condition evaluates to TRUE (a NULL condition drops the row).
FilterNotCancelled(df) ==
    LET Keep(r) == NotEqual(r.status, "Cancelled") = Some(TRUE)
    IN  SelectSeq(df, Keep)

\* --------------------------------- Step 2: feature engineering (88-100)
\* withColumn: the row with one more column.
WithColumn(r, name, v) ==
    [ f \in DOMAIN r \cup {name} |-> IF f = name THEN v ELSE r[f] ]

\* col.cast(DoubleType()): NULL stays NULL, a number keeps its value.
CastDouble(x) == IF IsNull(x) THEN Null ELSE Some(Val(x))

\* a * b: NULL if either operand is NULL.
Multiply(a, b) == IF IsNull(a) \/ IsNull(b) THEN Null ELSE Some(Val(a) * Val(b))

\* Mutation: truncation to 2 decimals.
Truncate2(x) ==
    IF x >= 0 THEN (x \div 10) * 10 ELSE -(((-x) \div 10) * 10)

\* HALF_UP to 2 decimals of an amount in thousandths (ties away from zero);
\* the result is again in thousandths, a multiple of 10.
HalfUp2(x) ==
    IF x >= 0 THEN ((x + 5) \div 10) * 10
              ELSE -((((-x) + 5) \div 10) * 10)

\* spark_round(e, 2): NULL stays NULL.
spark_round(x) == IF IsNull(x) THEN Null ELSE Some(HalfUp2(Val(x)))

\* The total_price expression of one row.
TotalPrice(r) ==
    spark_round(Multiply(CastDouble(r.quantity), CastDouble(r.price_per_unit)))

WithTotalPrice(df) ==
    [ i \in DOMAIN df |-> WithColumn(df[i], "total_price", TotalPrice(df[i])) ]

\* concat(col("customer_name"), lit("")): NULL if the name is NULL.
Concat(x, lit) == IF IsNull(x) THEN Null ELSE Some(Val(x) \o lit)

WithCustomerFullName(df) ==
    [ i \in DOMAIN df |->
        WithColumn(df[i], "customer_full_name", Concat(df[i].customer_name, "")) ]

\* ------------------------------------------ Step 3: aggregation (118-130)
\* Ascending string order of the region and status values in use (binary
\* order: upper case before lower case).
SortedStrings ==
    << "Cancelled", "Completed", "East", "North", "Pending", "South", "West",
       "cancelled" >>

\* Ascending sort key of a nullable string: NULL sorts first.
KeyRank(x) ==
    IF IsNull(x) THEN 0
    ELSE CHOOSE i \in 1..Len(SortedStrings) : SortedStrings[i] = Val(x)

\* Mutation: descending order.
RECURSIVE OrderByDesc(_, _)
OrderByDesc(S, key) ==
    IF S = {} THEN << >>
    ELSE LET m == CHOOSE x \in S : \A y \in S : key[x] >= key[y]
         IN  <<m>> \o OrderByDesc(S \ {m}, key)

\* orderBy: the rows of S in ascending order of their sort key, key being a
\* function from rows to the integer rank of the row's sort columns.
RECURSIVE OrderBy(_, _)
OrderBy(S, key) ==
    IF S = {} THEN << >>
    ELSE LET m == CHOOSE x \in S : \A y \in S : key[x] <= key[y]
         IN  <<m>> \o OrderBy(S \ {m}, key)

\* Mutation: a NULL operand makes the whole sum NULL.
RECURSIVE SqlSumNullPropagating(_)
SqlSumNullPropagating(xs) ==
    IF xs = << >> THEN Null
    ELSE IF Len(xs) = 1 THEN Head(xs)
    ELSE LET rest == SqlSumNullPropagating(Tail(xs))
         IN  IF IsNull(Head(xs)) \/ IsNull(rest) THEN Null
             ELSE Some(Val(Head(xs)) + Val(rest))

\* sum(column) over a sequence of nullable numbers: NULLs are skipped, and
\* the sum of no non-NULL value is NULL.
RECURSIVE SqlSum(_)
SqlSum(xs) ==
    IF xs = << >> THEN Null
    ELSE LET rest == SqlSum(Tail(xs))
         IN  IF IsNull(Head(xs)) THEN rest
             ELSE IF IsNull(rest) THEN Head(xs)
             ELSE Some(Val(Head(xs)) + Val(rest))

\* count(column): the number of rows whose column is not NULL.
RECURSIVE SqlCount(_)
SqlCount(xs) ==
    IF xs = << >> THEN 0
    ELSE (IF IsNull(Head(xs)) THEN 0 ELSE 1) + SqlCount(Tail(xs))

Column(df, c) == [ i \in DOMAIN df |-> df[i][c] ]

\* groupBy("region").agg(round(sum("total_price"), 2)).orderBy("region")
SalesByRegion(df) ==
    LET InRegion(k) == LET Test(r) == r.region = k IN SelectSeq(df, Test)
        groups == { [region |-> k,
                     total_regional_sales |->
                         spark_round(SqlSum(Column(InRegion(k), "total_price")))] :
                    k \in { df[i].region : i \in DOMAIN df } }
        key == [ g \in groups |-> KeyRank(g.region) ]
    IN  OrderBy(groups, key)

\* groupBy("region","status").agg(count("order_id")).orderBy("region","status")
OrdersByStatusRegion(df) ==
    LET InGroup(k) ==
            LET Test(r) == r.region = k[1] /\ r.status = k[2]
            IN  SelectSeq(df, Test)
        groups == { [region |-> k[1], status |-> k[2],
                     number_of_orders |-> SqlCount(Column(InGroup(k), "order_id"))] :
                    k \in { <<df[i].region, df[i].status>> : i \in DOMAIN df } }
        key == [ g \in groups |->
                   KeyRank(g.region) * (Len(SortedStrings) + 1) + KeyRank(g.status) ]
    IN  OrderBy(groups, key)

\* ------------------------------------------------------ the notebook run
VARIABLES pc, df_raw_sales, df_cleaned_quantity, df_filtered_orders,
          df_with_total_price, df_with_customer_full_name,
          df_sales_by_region, df_orders_by_status_region

vars == << pc, df_raw_sales, df_cleaned_quantity, df_filtered_orders,
           df_with_total_price, df_with_customer_full_name,
           df_sales_by_region, df_orders_by_status_region >>

\* After spark.createDataFrame(raw_sales_data, schema=sales_schema).
Init ==
    /\ pc = "fill"
    /\ df_raw_sales \in RawTables
    /\ df_cleaned_quantity = << >>
    /\ df_filtered_orders = << >>
    /\ df_with_total_price = << >>
    /\ df_with_customer_full_name = << >>
    /\ df_sales_by_region = << >>
    /\ df_orders_by_status_region = << >>

CleanQuantity ==
    /\ pc = "fill"
    /\ df_cleaned_quantity' = NaFill(df_raw_sales)
    /\ pc' = "filter"
    /\ UNCHANGED << df_raw_sales, df_filtered_orders, df_with_total_price,
                    df_with_customer_full_name, df_sales_by_region,
                    df_orders_by_status_region >>

FilterOrders ==
    /\ pc = "filter"
    /\ df_filtered_orders' = FilterNotCancelled(df_cleaned_quantity)
    /\ pc' = "total_price"
    /\ UNCHANGED << df_raw_sales, df_cleaned_quantity, df_with_total_price,
                    df_with_customer_full_name, df_sales_by_region,
                    df_orders_by_status_region >>

AddTotalPrice ==
    /\ pc = "total_price"
    /\ df_with_total_price' = WithTotalPrice(df_filtered_orders)
    /\ pc' = "full_name"
    /\ UNCHANGED << df_raw_sales, df_cleaned_quantity, df_filtered_orders,
                    df_with_customer_full_name, df_sales_by_region,
                    df_orders_by_status_region >>

AddCustomerFullName ==
    /\ pc = "full_name"
    /\ df_with_customer_full_name' = WithCustomerFullName(df_with_total_price)
    /\ pc' = "by_region"
    /\ UNCHANGED << df_raw_sales, df_cleaned_quantity, df_filtered_orders,
                    df_with_total_price, df_sales_by_region,
                    df_orders_by_status_region >>

AggregateByRegion ==
    /\ pc = "by_region"
    /\ df_sales_by_region' = SalesByRegion(df_with_customer_full_name)
    /\ pc' = "by_status_region"
    /\ UNCHANGED << df_raw_sales, df_cleaned_quantity, df_filtered_orders,
                    df_with_total_price, df_with_customer_full_name,
                    df_orders_by_status_region >>

AggregateByStatusRegion ==
    /\ pc = "by_status_region"
    /\ df_orders_by_status_region' = OrdersByStatusRegion(df_with_customer_full_name)
    /\ pc' = "done"
    /\ UNCHANGED << df_raw_sales, df_cleaned_quantity, df_filtered_orders,
                    df_with_total_price, df_with_customer_full_name,
                    df_sales_by_region >>

Next ==
    \/ CleanQuantity
    \/ FilterOrders
    \/ AddTotalPrice
    \/ AddCustomerFullName
    \/ AggregateByRegion
    \/ AggregateByStatusRegion

Spec == Init /\ [][Next]_vars

\* The stages that have run.
Cleaned == pc \notin {"fill"}
Filtered == pc \notin {"fill", "filter"}
Priced == pc \notin {"fill", "filter", "total_price"}
Derived == pc \notin {"fill", "filter", "total_price", "full_name"}
RegionDone == pc \in {"by_status_region", "done"}
Done == pc = "done"

TypeOK == pc \in {"fill", "filter", "total_price", "full_name", "by_region",
                  "by_status_region", "done"}


\* ------------------------------------------------------------- properties
Abs(x) == IF x >= 0 THEN x ELSE -x

\* Sum of f over the finite index set S.
RECURSIVE SumOver(_, _)
SumOver(S, f) ==
    IF S = {} THEN 0
    ELSE LET i == CHOOSE j \in S : TRUE IN f[i] + SumOver(S \ {i}, f)

\* The raw rows that are not exactly "Cancelled" (a NULL status is not
\* "Cancelled"), in order.
NotExactlyCancelled(df) ==
    LET Keep(r) == r.status # Some("Cancelled") IN SelectSeq(df, Keep)

NumCancelled(df) ==
    Cardinality({ i \in DOMAIN df : df[i].status = Some("Cancelled") })

\* The raw rows whose status is a string other than "Cancelled", in order.
SurvivingRaw ==
    LET Keep(r) == ~IsNull(r.status) /\ r.status # Some("Cancelled")
    IN  SelectSeq(df_raw_sales, Keep)

\* C1: the cleaned table is exactly the subsequence of the rows whose status
\* is not exactly "Cancelled", in original order; no cleaned row is
\* "Cancelled"; its row count is the raw count minus the "Cancelled" rows.
C1_FilterKeepsEveryNotCancelledRow ==
    Filtered =>
        /\ df_filtered_orders = NotExactlyCancelled(df_cleaned_quantity)
        /\ \A i \in DOMAIN df_filtered_orders :
               df_filtered_orders[i].status # Some("Cancelled")
        /\ Len(df_filtered_orders) = Len(df_raw_sales) - NumCancelled(df_raw_sales)

\* Quantity of row i of table df is the cleaned value of raw row i of base.
QuantityCleaned(df, base) ==
    /\ Len(df) = Len(base)
    /\ \A i \in DOMAIN df :
          /\ ~IsNull(df[i].quantity)
          /\ IsNull(base[i].quantity) => df[i].quantity = Some(0)
          /\ ~IsNull(base[i].quantity) => df[i].quantity = base[i].quantity

\* C2: from the cleaning stage onward quantity is never null: a row whose
\* raw quantity was null has quantity 0, any other row keeps its raw quantity.
C2_QuantityNeverNull ==
    /\ Cleaned => QuantityCleaned(df_cleaned_quantity, df_raw_sales)
    /\ Filtered => QuantityCleaned(df_filtered_orders, SurvivingRaw)
    /\ Priced => QuantityCleaned(df_with_total_price, SurvivingRaw)
    /\ Derived => QuantityCleaned(df_with_customer_full_name, SurvivingRaw)

C2_Witness ==
    /\ Done
    /\ \E i, j \in DOMAIN SurvivingRaw :
          /\ IsNull(SurvivingRaw[i].quantity)
          /\ df_with_customer_full_name[i].quantity = Some(0)
          /\ ~IsNull(SurvivingRaw[j].quantity)
          /\ SurvivingRaw[j].quantity # Some(0)

\* t is the amount x (in thousandths) rounded to 2 decimals: a whole number
\* of hundredths nearest to x.
IsRounded2(t, x) == t % 10 = 0 /\ Abs(t - x) <= 5

\* C3: in every derived row total_price is round(quantity * price_per_unit, 2)
\* of that row's own cleaned quantity and price (NULL when the price is NULL),
\* and rows with equal quantity and price have equal total_price.
C3_TotalPriceIsRoundedProduct ==
    Priced =>
        /\ Len(df_with_total_price) = Len(df_filtered_orders)
        /\ \A i \in DOMAIN df_with_total_price :
              LET r == df_filtered_orders[i]
                  t == df_with_total_price[i].total_price
              IN  IF IsNull(r.quantity) \/ IsNull(r.price_per_unit)
                  THEN IsNull(t)
                  ELSE /\ ~IsNull(t)
                       /\ IsRounded2(Val(t), Val(r.quantity) * Val(r.price_per_unit))
        /\ \A i, j \in DOMAIN df_with_total_price :
              (/\ df_filtered_orders[i].quantity = df_filtered_orders[j].quantity
               /\ df_filtered_orders[i].price_per_unit = df_filtered_orders[j].price_per_unit)
              => df_with_total_price[i].total_price = df_with_total_price[j].total_price

C3_Witness ==
    /\ Priced
    /\ \E i, j \in DOMAIN df_with_total_price :
          LET r == df_filtered_orders[i]
          IN  /\ i # j
              /\ ~IsNull(r.quantity) /\ ~IsNull(r.price_per_unit)
              /\ df_with_total_price[i].total_price
                     # Some(Val(r.quantity) * Val(r.price_per_unit))
              /\ df_with_total_price[j].total_price # df_with_total_price[i].total_price

\* C4: total_price is never null in any row of the derived table.
C4_TotalPriceNeverNull ==
    Priced => \A i \in DOMAIN df_with_total_price :
                  ~IsNull(df_with_total_price[i].total_price)

\* The indices of the derived rows in the group of key k.
RegionRows(k) ==
    { i \in DOMAIN df_with_customer_full_name :
        df_with_customer_full_name[i].region = k }

PairRows(k1, k2) ==
    { i \in DOMAIN df_with_customer_full_name :
        /\ df_with_customer_full_name[i].region = k1
        /\ df_with_customer_full_name[i].status = k2 }

\* C5: each by-(region, status) row has number_of_orders equal to the number
\* of derived rows of its group, so the counts add up to the derived table's
\* row count.
C5_CountIsGroupSize ==
    Done =>
        /\ \A n \in DOMAIN df_orders_by_status_region :
              LET g == df_orders_by_status_region[n]
              IN  g.number_of_orders = Cardinality(PairRows(g.region, g.status))
        /\ SumOver(DOMAIN df_orders_by_status_region,
                   [ n \in DOMAIN df_orders_by_status_region |->
                       df_orders_by_status_region[n].number_of_orders ])
             = Len(df_with_customer_full_name)

\* The amount a nullable number adds to a sum.
Amount(x) == IF IsNull(x) THEN 0 ELSE Val(x)

\* The sum of total_price over the derived rows with index in S: NULL when
\* none of them has a total_price.
TotalOf(S) ==
    IF \A i \in S : IsNull(df_with_customer_full_name[i].total_price) THEN Null
    ELSE Some(SumOver(S, [ i \in S |->
                  Amount(df_with_customer_full_name[i].total_price) ]))

\* C6: the by-region aggregate has exactly one row per distinct region of the
\* derived table, its total_regional_sales is the sum of total_price over that
\* region's rows, and the regional totals add up to the sum of total_price
\* over the whole derived table.
C6_RegionTotals ==
    RegionDone =>
        /\ { df_sales_by_region[n].region : n \in DOMAIN df_sales_by_region }
             = { df_with_customer_full_name[i].region :
                   i \in DOMAIN df_with_customer_full_name }
        /\ \A m, n \in DOMAIN df_sales_by_region :
              df_sales_by_region[m].region = df_sales_by_region[n].region => m = n
        /\ \A n \in DOMAIN df_sales_by_region :
              df_sales_by_region[n].total_regional_sales
                  = TotalOf(RegionRows(df_sales_by_region[n].region))
        /\ SumOver(DOMAIN df_sales_by_region,
                   [ n \in DOMAIN df_sales_by_region |->
                       Amount(df_sales_by_region[n].total_regional_sales) ])
             = Amount(TotalOf(DOMAIN df_with_customer_full_name))

C6_Witness ==
    /\ RegionDone
    /\ Len(df_sales_by_region) >= 2
    /\ \E n \in DOMAIN df_sales_by_region :
          LET S == RegionRows(df_sales_by_region[n].region)
          IN  /\ Cardinality(S) >= 2
              /\ \A i \in S :
                    /\ ~IsNull(df_with_customer_full_name[i].total_price)
                    /\ df_with_customer_full_name[i].total_price
                           # df_with_customer_full_name[i].price_per_unit

\* C7: both aggregates are strictly ascending in their group key (region; the
\* pair (region, status) with region first), so keys are unique, and only
\* keys of derived rows appear.
C7_SortedUniqueKeys ==
    /\ RegionDone =>
          /\ \A m, n \in DOMAIN df_sales_by_region :
                m < n => KeyRank(df_sales_by_region[m].region)
                            < KeyRank(df_sales_by_region[n].region)
          /\ \A n \in DOMAIN df_sales_by_region :
                RegionRows(df_sales_by_region[n].region) # {}
    /\ Done =>
          /\ \A m, n \in DOMAIN df_orders_by_status_region :
                LET a == df_orders_by_status_region[m]
                    b == df_orders_by_status_region[n]
                IN  m < n =>
                      \/ KeyRank(a.region) < KeyRank(b.region)
                      \/ /\ a.region = b.region
                         /\ KeyRank(a.status) < KeyRank(b.status)
          /\ \A n \in DOMAIN df_orders_by_status_region :
                PairRows(df_orders_by_status_region[n].region,
                         df_orders_by_status_region[n].status) # {}

\* Three regions in an order the raw table does not have, two statuses within
\* one region, and a raw region ("West") that no aggregate row carries.
C7_Witness ==
    /\ Done
    /\ Len(df_sales_by_region) >= 3
    /\ df_sales_by_region[1].region # df_with_customer_full_name[1].region
    /\ \E m, n \in DOMAIN df_orders_by_status_region :
          /\ m # n
          /\ df_orders_by_status_region[m].region = df_orders_by_status_region[n].region
    /\ \E i \in DOMAIN df_raw_sales :
          /\ df_raw_sales[i].region = Some("West")
          /\ \A n \in DOMAIN df_sales_by_region :
                df_sales_by_region[n].region # Some("West")
          /\ \A n \in DOMAIN df_orders_by_status_region :
                df_orders_by_status_region[n].region # Some("West")

\* C8: null-fill keeps the row count and order and changes no column other
\* than quantity, and leaves a non-null quantity as it is.
C8_FillTouchesOnlyQuantity ==
    Cleaned =>
        /\ Len(df_cleaned_quantity) = Len(df_raw_sales)
        /\ \A i \in DOMAIN df_raw_sales :
              /\ DOMAIN df_cleaned_quantity[i] = DOMAIN df_raw_sales[i]
              /\ \A f \in DOMAIN df_raw_sales[i] \ {"quantity"} :
                    df_cleaned_quantity[i][f] = df_raw_sales[i][f]
              /\ ~IsNull(df_raw_sales[i].quantity)
                    => df_cleaned_quantity[i].quantity = df_raw_sales[i].quantity

C8_Witness ==
    /\ Cleaned
    /\ \E i, j \in DOMAIN df_raw_sales :
          /\ IsNull(df_raw_sales[i].quantity)
          /\ df_cleaned_quantity[i] # df_raw_sales[i]
          /\ IsNull(df_raw_sales[j].price_per_unit)
          /\ ~IsNull(df_raw_sales[j].quantity)

\* C9: on the notebook's ten rows the cleaned table has 9 rows without ORD005,
\* ORD008 has quantity 0 and total_price 0.00, and "North" totals 1560.50.
C9_NotebookDataset ==
    (df_raw_sales = raw_sales_data /\ Done) =>
        /\ Len(df_raw_sales) = 10
        /\ \E i \in DOMAIN df_raw_sales : df_raw_sales[i].order_id = Some("ORD005")
        /\ Len(df_filtered_orders) = 9
        /\ \A i \in DOMAIN df_filtered_orders :
              df_filtered_orders[i].order_id # Some("ORD005")
        /\ \E i \in DOMAIN df_filtered_orders :
              /\ df_filtered_orders[i].order_id = Some("ORD008")
              /\ df_filtered_orders[i].quantity = Some(0)
        /\ \E i \in DOMAIN df_with_customer_full_name :
              /\ df_with_customer_full_name[i].order_id = Some("ORD008")
              /\ df_with_customer_full_name[i].quantity = Some(0)
              /\ df_with_customer_full_name[i].total_price = Some(0)
        /\ \E n \in DOMAIN df_sales_by_region :
              /\ df_sales_by_region[n].region = Some("North")
              /\ df_sales_by_region[n].total_regional_sales = Some(1560500)

C9_Witness == df_raw_sales = raw_sales_data /\ Done

\* C10: null-fill then filter (the notebook's order) gives the same cleaned
\* table as filter then null-fill.
C10_FillAndFilterCommute ==
    Filtered => df_filtered_orders = NaFill(FilterNotCancelled(df_raw_sales))

C10_Witness ==
    /\ Filtered
    /\ Len(df_filtered_orders) < Len(df_raw_sales)
    /\ \E i \in DOMAIN df_filtered_orders :
          df_filtered_orders[i] \notin { df_raw_sales[j] : j \in DOMAIN df_raw_sales }

=============================================================================
